---- MODULE Spec2Model ----
(***************************************************************************)
(* Context Augmentation Engine of hugolatendresse/aria: the RagService     *)
(* singleton (index load, similarity search), its retrieval entry points,  *)
(* and the capability-card trigger matching and budgeted formatting.       *)
(***************************************************************************)
EXTENDS Integers, Sequences, FiniteSets, TLC

(***************************************************************************)
(* Bounds of the model                                                     *)
(***************************************************************************)
NumCallers == 2    \* concurrent callers of initialize()
MaxChildren == 2   \* child chunks in an index file
MaxTopK == 2       \* largest topK a search is called with
MaxCards == 2      \* capability cards handed to formatCardsForPrompt
MaxBudget == 36    \* largest small token budget
MaxTurns == 4      \* user turns handed to detectCards

(***************************************************************************)
(* Program constants                                                       *)
(***************************************************************************)
DefaultTopK == 5   \* DEFAULT_CONFIG.topK
WindowTurns == 3   \* userTurns.slice(-3)
DefaultImportance == 3
MAX_CARDS == 10
SignalsListed == 5     \* signals.slice(0, 5)
MaxSignalBonus == 2
EntryTopK == 3     \* topK of getActuarialRagSection and executeRagSearchTool
CARD_BUDGET_TOKENS == 800
CardHeadingLen == 21   \* "### Capability Card: "
SourcesLabelLen == 11  \* "_Sources_: "
RuleLen == 3           \* "---"
PreambleLen == 128     \* "You have contextual capability cards ..."

VARIABLES
    file,            \* the actuarial-index.json on disk (fixed during a run)
    index,           \* RagService.index
    parentChunkMap,  \* RagService.parentChunkMap
    isLoading,       \* RagService.isLoading
    loadError,       \* RagService.loadError
    pc,              \* position of each initialize() caller
    thrown,          \* the error each caller's initialize() threw, if any
    observed,        \* what the last status getters returned
    rpc,             \* position of the retrieval request in progress
    rentry,          \* entry point of the request: search, section or tool
    rargs,           \* arguments of the request
    response,        \* what the embedding provider answered
    rout,            \* outcome of the request
    httpCalls,       \* fetch() calls issued by the request
    cards,           \* formatCardsForPrompt: the cards argument
    budget,          \* formatCardsForPrompt: the budget argument
    fpos,            \* formatCardsForPrompt: the card the loop is at
    used,            \* formatCardsForPrompt: used
    blocks,          \* formatCardsForPrompt: blocks
    fout,            \* formatCardsForPrompt: the string returned
    userTurns,       \* detectCards: the userTurns argument
    registry,        \* detectCards: the registry argument
    detected,        \* detectCards (importance scores): what the call returned or threw
    recent,          \* detectCards (recency scores): what the call returned or threw
    policy,          \* getRelevantCapabilityCards: the detectCards it is built with
    relevant,        \* getRelevantCapabilityCards: its progress, then its result
    vecA,            \* cosineSimilarity: the argument a
    vecB,            \* cosineSimilarity: the argument b
    similarity,      \* cosineSimilarity: what the call returned or threw
    ragResults,      \* formatRagContext: the results argument
    ragQuery,        \* formatRagContext: the _query argument
    ragText          \* formatRagContext: the string returned

vars == <<file, index, parentChunkMap, isLoading, loadError, pc, thrown,
          observed, rpc, rentry, rargs, response, rout, httpCalls,
          cards, budget, fpos, used, blocks, fout, userTurns, registry,
          detected, recent, policy, relevant, vecA, vecB, similarity,
          ragResults, ragQuery, ragText>>

svcVars == <<index, parentChunkMap, isLoading, loadError, pc, thrown>>
reqVars == <<rpc, rentry, rargs, response, rout, httpCalls>>
fmtVars == <<cards, budget, fpos, used, blocks, fout>>
detVars == <<userTurns, registry, detected, recent>>
relVars == <<policy, relevant>>
vecVars == <<vecA, vecB, similarity>>
ctxVars == <<ragResults, ragQuery, ragText>>

Callers == 1..NumCallers

(***************************************************************************)
(* Vector math (services/rag/vectorMath.ts).  Scores are exact rationals   *)
(* held as integers in units of 1/ScoreScale; the vectors of the model     *)
(* have perfect-square norms (0, 1, 25), so Math.sqrt is exact on them.    *)
(***************************************************************************)
ScoreScale == 2 * 5 * 5

RECURSIVE SumProd(_, _, _)
SumProd(a, b, i) ==
    IF i > Len(a) THEN 0 ELSE a[i] * b[i] + SumProd(a, b, i + 1)

Sqrt(n) == CHOOSE r \in 0..n : r * r = n

Throw(msg) == [ok |-> FALSE, error |-> msg]
Value(v) == [ok |-> TRUE, value |-> v]

\* what a division 0 / 0 gives
NaN == [ok |-> TRUE, nan |-> TRUE]

\* cosineSimilarity without its test of magnitude === 0
cosineSimilarityUnguarded(a, b) ==
    IF Len(a) # Len(b) THEN Throw("Vector length mismatch")
    ELSE LET magnitude == Sqrt(SumProd(a, a, 1)) * Sqrt(SumProd(b, b, 1))
         IN IF magnitude = 0 THEN NaN
            ELSE Value((SumProd(a, b, 1) * ScoreScale) \div magnitude)

\* cosineSimilarity returning the dot product, the division left out
cosineSimilarityUnnormalised(a, b) ==
    IF Len(a) # Len(b) THEN Throw("Vector length mismatch")
    ELSE Value(SumProd(a, b, 1) * ScoreScale)

cosineSimilarity(a, b) ==
    IF Len(a) # Len(b) THEN Throw("Vector length mismatch")
    ELSE LET dotProduct == SumProd(a, b, 1)
             normA == SumProd(a, a, 1)
             normB == SumProd(b, b, 1)
             magnitude == Sqrt(normA) * Sqrt(normB)
         IN IF magnitude = 0 THEN Value(0)
            ELSE Value((dotProduct * ScoreScale) \div magnitude)

\* vectors of length 0 to 3 with norms 0, 1, 9 and 25
Vectors ==
    { <<>>, <<0>>, <<3>>, <<-1>>, <<0, 0>>, <<1, 0>>, <<3, 4>>, <<-4, 3>>,
      <<0, 0, 0>>, <<0, 3, 4>>, <<2, 1, 2>> }

(***************************************************************************)
(* Index data (services/rag/types.ts)                                      *)
(***************************************************************************)
Null == [null |-> TRUE]
NoError == "null"
Absent == [present |-> FALSE]
Present(v) == [present |-> TRUE, value |-> v]

\* one call of cosineSimilarity
CosineCall ==
    /\ similarity = Null
    /\ similarity' = cosineSimilarity(vecA, vecB)
    /\ UNCHANGED <<file, svcVars, observed, reqVars, fmtVars, detVars, relVars,
                   vecA, vecB, ctxVars>>

ParentIds == {1, 2}
OrphanId == 3
Embeddings == {<<1, 0>>, <<3, 4>>, <<0, 0>>, <<1>>}

\* the content of the parent chunk lettered c: the letter among white space
ContentOf(c) ==
    CASE c = "a" -> <<" ", c, "\n">>
      [] c = "b" -> <<c>>
      [] OTHER -> <<c, " ", c, " ">>

\* its metadata: a named source with a page; an empty source_name, a
\* source and page 0; nothing
MetadataOf(c) ==
    CASE c = "a" -> [source_name |-> Present("Werner"), source |-> Present("w.pdf"),
                     page |-> Present(12)]
      [] c = "b" -> [source_name |-> Present(""), source |-> Present("asop.pdf"),
                     page |-> Present(0)]
      [] OTHER -> [source_name |-> Absent, source |-> Absent, page |-> Absent]

ParentChunk(i, c) == [id |-> i, content |-> ContentOf(c), metadata |-> MetadataOf(c)]
ChildChunk(p, e) == [parent_id |-> p, embedding |-> e]

\* the child chunks of a file: each with its place in the file as its id
WithIds(cs) ==
    [k \in 1..Len(cs) |->
        [id |-> k, parent_id |-> cs[k].parent_id, embedding |-> cs[k].embedding]]

\* parent lists: none, one, two distinct, and two sharing an id
ParentLists ==
    { <<>>,
      <<ParentChunk(1, "a")>>,
      <<ParentChunk(1, "a"), ParentChunk(2, "b")>>,
      <<ParentChunk(2, "b"), ParentChunk(2, "c")>> }

ChildOptions ==
    { ChildChunk(p, e) : p \in ParentIds \cup {OrphanId}, e \in Embeddings }

SeqsUpTo(S, n) == UNION { [1..k -> S] : k \in 0..n }

MissingFile == [exists |-> FALSE]
IndexFile(v, ps, cs) ==
    [exists |-> TRUE, version |-> v, parent_chunks |-> ps,
     child_chunks |-> WithIds(cs)]

\* every index file within the bounds
AllFiles ==
    {MissingFile} \cup
    { IndexFile(v, ps, cs) :
        v \in {1, 2}, ps \in ParentLists, cs \in SeqsUpTo(ChildOptions, MaxChildren) }

\* a few index files, one for each way a load can end
FewFiles ==
    { MissingFile,
      IndexFile(1, <<ParentChunk(1, "a")>>, <<ChildChunk(1, <<1, 0>>)>>),
      IndexFile(2, <<>>, <<ChildChunk(1, <<1, 0>>)>>),
      IndexFile(2, <<ParentChunk(1, "a")>>, <<>>),
      IndexFile(2, <<ParentChunk(1, "c")>>, <<ChildChunk(1, <<1, 0>>)>>),
      IndexFile(2, <<ParentChunk(1, "a"), ParentChunk(2, "b")>>,
                   <<ChildChunk(1, <<3, 4>>), ChildChunk(2, <<1, 0>>)>>) }

(***************************************************************************)
(* RagService.initialize                                                   *)
(***************************************************************************)
\* JSON.parse(indexContent) as RagIndex
ParseIndex(f) ==
    [version |-> f.version, parent_chunks |-> f.parent_chunks,
     child_chunks |-> f.child_chunks]

\* the validation of the parsed index: the error it throws, or NoError
ValidateIndex(ix) ==
    IF ix.version # 2 THEN "Unsupported RAG index version"
    ELSE IF Len(ix.parent_chunks) = 0 THEN "RAG index has no parent chunks"
    ELSE IF Len(ix.child_chunks) = 0 THEN "RAG index has no child chunks"
    ELSE NoError

\* new Map(); for (const parent of index.parent_chunks) map.set(parent.id, parent)
BuildParentMap(ps) ==
    [i \in {ps[k].id : k \in 1..Len(ps)} |->
        ps[CHOOSE k \in 1..Len(ps) :
              /\ ps[k].id = i
              /\ \A j \in 1..Len(ps) : ps[j].id = i => j <= k]]

EmptyMap == [i \in {} |-> Null]

\* orphanCount: the child chunks whose parent_id the parent map lacks,
\* which initialize() counts and logs
OrphanCount(ix) ==
    Cardinality({ k \in 1..Len(ix.child_chunks) :
                    ix.child_chunks[k].parent_id
                        \notin DOMAIN BuildParentMap(ix.parent_chunks) })

\* inconsistent.length: the child chunks whose embedding has another length
\* than that of the first child chunk, which initialize() counts and logs
InconsistentCount(ix) ==
    LET embeddingDim == Len(ix.child_chunks[1].embedding)
    IN Cardinality({ k \in 1..Len(ix.child_chunks) :
                       Len(ix.child_chunks[k].embedding) # embeddingDim })

\* initialize() without its "already loaded" return
AlreadyLoadedUnchecked == FALSE
\* if (this.index)
AlreadyLoaded == index # Null

\* initialize() without its wait for a load in progress
LoadInProgressUnchecked == FALSE
\* if (this.isLoading)
LoadInProgress == isLoading

\* isReady()
isReady == index # Null /\ ~isLoading

\* the catch block without the finally block: the flag stays set
FailLoadKeepFlag(c, msg) ==
    /\ loadError' = msg
    /\ isLoading' = TRUE
    /\ pc' = [pc EXCEPT ![c] = "threw"]
    /\ thrown' = [thrown EXCEPT ![c] = msg]
    /\ UNCHANGED <<index, parentChunkMap>>

\* the catch and finally blocks of initialize: the load of caller c has failed
FailLoad(c, msg) ==
    /\ loadError' = msg
    /\ isLoading' = FALSE
    /\ pc' = [pc EXCEPT ![c] = "threw"]
    /\ thrown' = [thrown EXCEPT ![c] = msg]
    /\ UNCHANGED <<index, parentChunkMap>>

\* initialize(), from the call to its first await (or to its return)
InitializeCall(c) ==
    /\ pc[c] \in {"idle", "returned", "threw"}
    /\ IF AlreadyLoaded
         THEN /\ pc' = [pc EXCEPT ![c] = "returned"]
              /\ thrown' = [thrown EXCEPT ![c] = NoError]
              /\ UNCHANGED <<index, parentChunkMap, isLoading, loadError>>
       ELSE IF LoadInProgress
         THEN /\ pc' = [pc EXCEPT ![c] = "waiting"]
              /\ thrown' = [thrown EXCEPT ![c] = NoError]
              /\ UNCHANGED <<index, parentChunkMap, isLoading, loadError>>
       ELSE IF ~file.exists
         THEN FailLoad(c, "RAG index not found")
       ELSE /\ isLoading' = TRUE
            /\ loadError' = NoError
            /\ pc' = [pc EXCEPT ![c] = "reading"]
            /\ thrown' = [thrown EXCEPT ![c] = NoError]
            /\ UNCHANGED <<index, parentChunkMap>>
    /\ UNCHANGED <<file, observed, reqVars, fmtVars, detVars, relVars, vecVars, ctxVars>>

\* initialize(), from the completion of fs.promises.readFile to its end
ReadFileDone(c) ==
    /\ pc[c] = "reading"
    /\ \E readOk \in BOOLEAN :
         IF ~readOk THEN FailLoad(c, "read failed")
         ELSE LET ix == ParseIndex(file)
                  err == ValidateIndex(ix)
              IN IF err # NoError THEN FailLoad(c, err)
                 ELSE /\ parentChunkMap' = BuildParentMap(ix.parent_chunks)
                      /\ index' = ix
                      /\ isLoading' = FALSE
                      /\ pc' = [pc EXCEPT ![c] = "returned"]
                      /\ UNCHANGED <<loadError, thrown>>
    /\ UNCHANGED <<file, observed, reqVars, fmtVars, detVars, relVars, vecVars, ctxVars>>

\* the wait loop of initialize(): one expiry of the 100 ms timer
WaitPoll(c) ==
    /\ pc[c] = "waiting"
    /\ ~isLoading
    /\ pc' = [pc EXCEPT ![c] = "returned"]
    /\ UNCHANGED <<file, index, parentChunkMap, isLoading, loadError, thrown,
                   observed, reqVars, fmtVars, detVars, relVars, vecVars, ctxVars>>

\* isReady(), getLoadError(), getDocumentCount(), getChildChunkCount() and
\* getIndexMetadata(), called together
GetStatus ==
    /\ observed' =
         [ready |-> isReady,
          loadError |-> loadError,
          documentCount |-> IF index = Null THEN 0 ELSE Len(index.parent_chunks),
          childChunkCount |-> IF index = Null THEN 0 ELSE Len(index.child_chunks),
          metadata |-> IF index = Null THEN Null
                       ELSE [version |-> index.version,
                             parentCount |-> Len(index.parent_chunks),
                             childCount |-> Len(index.child_chunks)]]
    /\ UNCHANGED <<file, svcVars, reqVars, fmtVars, detVars, relVars, vecVars, ctxVars>>

(***************************************************************************)
(* RagService.search and RagService.embedQuery                             *)
(***************************************************************************)
Queries == {"", "hello", "ibnr"}
Keys == {"", "k"}
DefaultMinScore == ScoreScale \div 2       \* DEFAULT_CONFIG.minScore, 0.5
EntryMinScore == (6 * ScoreScale) \div 10   \* minScore of the entry points, 0.6
MinScores == {0, EntryMinScore, ScoreScale}

\* what the embedding provider can answer to one fetch()
Responses ==
    { [kind |-> "reject"], [kind |-> "status"], [kind |-> "malformed"] } \cup
    { [kind |-> "ok", values |-> v] : v \in Embeddings }

\* embedQuery, from the completion of fetch() on
embedQuery(resp) ==
    IF resp.kind = "reject" THEN Throw("fetch failed")
    ELSE IF resp.kind = "status" THEN Throw("Gemini embedding API error")
    ELSE IF resp.kind = "malformed"
      THEN Throw("Invalid response from Gemini embedding API")
    ELSE Value(resp.values)

\* the checks of search() that come before the embedding call
SearchPrecheck(key) ==
    IF index = Null THEN "RAG index not loaded"
    ELSE IF key = "" THEN "Gemini API key is required for RAG search"
    ELSE NoError

\* the loop without its threshold
PassesAnyScore(score, minScore) == TRUE
\* if (score >= searchConfig.minScore)
PassesMinScore(score, minScore) == score >= minScore

\* the loop over child_chunks: the matches at or above minScore, in index
\* order, or the error of the first cosineSimilarity that throws
RECURSIVE ChildMatches(_, _, _, _, _)
ChildMatches(q, cs, minScore, i, acc) ==
    IF i > Len(cs) THEN Value(acc)
    ELSE LET s == cosineSimilarity(q, cs[i].embedding)
         IN IF ~s.ok THEN s
            ELSE IF PassesMinScore(s.value, minScore)
              THEN ChildMatches(q, cs, minScore, i + 1,
                                Append(acc, [child |-> cs[i], score |-> s.value]))
            ELSE ChildMatches(q, cs, minScore, i + 1, acc)

\* an unstable sort: a match goes before the matches of its own score
InsertByScoreUnstable(sorted, m) ==
    LET n == Cardinality({i \in 1..Len(sorted) : sorted[i].score > m.score})
    IN SubSeq(sorted, 1, n) \o <<m>> \o SubSeq(sorted, n + 1, Len(sorted))

\* Array.prototype.sort with (a, b) => b.score - a.score: stable, descending
InsertByScore(sorted, m) ==
    LET n == Cardinality({i \in 1..Len(sorted) : sorted[i].score >= m.score})
    IN SubSeq(sorted, 1, n) \o <<m>> \o SubSeq(sorted, n + 1, Len(sorted))

\* the matches left in index order
SortByScoreKeepOrder(ms) == ms

RECURSIVE SortByScore(_)
SortByScore(ms) ==
    IF ms = <<>> THEN <<>>
    ELSE InsertByScore(SortByScore(SubSeq(ms, 1, Len(ms) - 1)), ms[Len(ms)])

\* the loop without its seenParents check
SeenParentNever(seen, pid) == FALSE
\* if (seenParents.has(match.child.parent_id))
SeenParent(seen, pid) == pid \in seen

\* if (results.length >= searchConfig.topK), tested after the push
EnoughResults(results, topK) == Len(results) >= topK

\* the loop left at the first match whose parent is missing
AfterOrphanBreak(i, n) == n + 1
\* continue, for a match whose parent is missing: on to the next match
AfterOrphan(i, n) == i + 1

\* the deduplication loop over the sorted matches
RECURSIVE Dedup(_, _, _, _, _)
Dedup(ms, i, seen, results, topK) ==
    IF i > Len(ms) THEN results
    ELSE LET m == ms[i]
             pid == m.child.parent_id
         IN IF SeenParent(seen, pid) THEN Dedup(ms, i + 1, seen, results, topK)
            ELSE IF pid \notin DOMAIN parentChunkMap
              THEN Dedup(ms, AfterOrphan(i, Len(ms)), seen, results, topK)
            ELSE LET pushed ==
                       Append(results, [parentChunk |-> parentChunkMap[pid],
                                        matchedChildChunk |-> m.child,
                                        score |-> m.score])
                 IN IF EnoughResults(pushed, topK) THEN pushed
                    ELSE Dedup(ms, i + 1, seen \cup {pid}, pushed, topK)

\* search(), from the completion of the embedding call on
SearchBody(resp, topK, minScore) ==
    LET queryEmbedding == embedQuery(resp)
    IN IF ~queryEmbedding.ok THEN queryEmbedding
       ELSE LET childMatches ==
                    ChildMatches(queryEmbedding.value, index.child_chunks,
                                 minScore, 1, <<>>)
            IN IF ~childMatches.ok THEN childMatches
               ELSE Value(Dedup(SortByScore(childMatches.value), 1, {}, <<>>, topK))

Args(q, k, t, m) == [query |-> q, key |-> k, topK |-> t, minScore |-> m]

\* search(query, geminiApiKey, {topK, minScore}), up to the fetch() it issues
SearchCall(q, k, t, m) ==
    /\ rpc \in {"idle", "done"}
    /\ rentry' = "search"
    /\ rargs' = Args(q, k, t, m)
    /\ LET err == SearchPrecheck(k)
       IN IF err # NoError
            THEN /\ rpc' = "done"
                 /\ rout' = Throw(err)
                 /\ httpCalls' = 0
          ELSE /\ rpc' = "fetching"
               /\ rout' = Null
               /\ httpCalls' = 1
    /\ response' = Null
    /\ UNCHANGED <<file, svcVars, observed, fmtVars, detVars, relVars, vecVars, ctxVars>>

(***************************************************************************)
(* The retrieval entry points: getActuarialRagSection (actuarial_rag.ts)   *)
(* and executeRagSearchTool (services/rag/tool.ts)                         *)
(***************************************************************************)
\* mightBenefitFromActuarialContext: "ibnr" is one of its keywords, and
\* neither "" nor "hello" contains any
mightBenefitFromActuarialContext(q) == q = "ibnr"

\* white space, as String.prototype.trim sees it
IsSpace(ch) == ch \in {" ", "\n"}

RECURSIVE trimStart(_)
trimStart(str) ==
    IF Len(str) > 0 /\ IsSpace(str[1]) THEN trimStart(Tail(str)) ELSE str

RECURSIVE trimEnd(_)
trimEnd(str) ==
    IF Len(str) > 0 /\ IsSpace(str[Len(str)])
      THEN trimEnd(SubSeq(str, 1, Len(str) - 1)) ELSE str

\* content.trim() without the trim
trimNone(str) == str
\* String.prototype.trim
trim(str) == trimEnd(trimStart(str))

\* whether an optional string is truthy: neither undefined nor ""
TruthyString(opt) == opt.present /\ opt.value # ""

\* whether an optional number is truthy: neither undefined nor 0
TruthyNumber(opt) == opt.present /\ opt.value # 0

\* metadata.source_name || metadata.source || "Unknown Source"
SourceName(metadata) ==
    IF TruthyString(metadata.source_name) THEN metadata.source_name.value
    ELSE IF TruthyString(metadata.source) THEN metadata.source.value
    ELSE "Unknown Source"

\* metadata.page ? ` (Page ${metadata.page})` : ""
PageNote(metadata) ==
    IF TruthyNumber(metadata.page) THEN Present(metadata.page.value) ELSE Absent

Line(text) == [line |-> text]

\* the three sections pushed for result i
RECURSIVE ReferenceSections(_, _)
ReferenceSections(results, i) ==
    IF i > Len(results) THEN <<>>
    ELSE LET parentChunk == results[i].parentChunk
         IN << [reference |-> i, sourceName |-> SourceName(parentChunk.metadata),
                page |-> PageNote(parentChunk.metadata)],
               [text |-> trim(parentChunk.content)],
               Line("") >> \o ReferenceSections(results, i + 1)

\* formatRagContext: the sections that are joined with "\n"; the empty
\* string is the empty sequence
formatRagContext(results, query) ==
    IF Len(results) = 0 THEN <<>>
    ELSE << Line("ACTUARIAL REFERENCE CONTEXT"),
            Line("The following excerpts from actuarial literature"),
            Line("") >>
         \o ReferenceSections(results, 1)
         \o << Line("--- End of Actuarial Reference Context ---"),
                Line(""),
                Line("Use the above context to inform your response") >>

\* one call of formatRagContext
FormatContextCall ==
    /\ ragText = Null
    /\ ragText' = formatRagContext(ragResults, ragQuery)
    /\ UNCHANGED <<file, svcVars, observed, reqVars, fmtVars, detVars, relVars,
                   vecVars, ragResults, ragQuery>>

\* what reading the API configuration can give: a failure, no key, a key
ConfigReads ==
    { [kind |-> "reject"], [kind |-> "ok", key |-> ""], [kind |-> "ok", key |-> "k"] }

Undefined == [kind |-> "undefined"]
\* `Error: ${msg}`
ToolError(msg) == [kind |-> "error", message |-> msg]
\* `Error performing RAG search: ${msg}`
SearchFailure(msg) == [kind |-> "failure", message |-> msg]

\* the string executeRagSearchTool returns, as its words
ToolString(result) ==
    CASE result.kind = "error" -> <<"Error:", result.message>>
      [] result.kind = "failure" ->
            <<"Error", "performing", "RAG", "search:", result.message>>
      [] result.kind = "nomatch" ->
            <<"No", "relevant", "actuarial", "documents", "found">>
      [] OTHER -> <<"ACTUARIAL", "REFERENCE", "CONTEXT">>

\* String.prototype.startsWith, on words
startsWith(str, prefix) ==
    Len(str) >= Len(prefix) /\ SubSeq(str, 1, Len(prefix)) = prefix

\* formatResponse.toolError(text)
FormatToolError(text) == [toolError |-> text]

\* SearchActuarialDocsToolHandler.execute, from the return of
\* executeRagSearchTool on: what it shows, records and returns
HandlerResult(result) ==
    LET isError == startsWith(ToolString(result), <<"Error:">>)
    IN [said |-> Present(result),
        telemetry |-> Present([success |-> ~isError]),
        response |-> IF isError THEN FormatToolError(result) ELSE result]

\* the outcome of an entry point, passed through the handler when the
\* handler made the call; a rejection passes through it unchanged
ViaHandler(entry, out) ==
    IF entry = "handler" /\ out.ok THEN Value(HandlerResult(out.value)) ELSE out

\* getActuarialRagSection, up to the await of getApiConfiguration()
SectionCall(q) ==
    /\ rpc \in {"idle", "done"}
    /\ rentry' = "section"
    /\ rargs' = Args(q, "", EntryTopK, EntryMinScore)
    /\ IF q = "" \/ ~mightBenefitFromActuarialContext(q) \/ ~isReady
         THEN /\ rpc' = "done"
              /\ rout' = Value(Undefined)
       ELSE /\ rpc' = "config"
            /\ rout' = Null
    /\ httpCalls' = 0
    /\ response' = Null
    /\ UNCHANGED <<file, svcVars, observed, fmtVars, detVars, relVars, vecVars, ctxVars>>

\* executeRagSearchTool, up to the await of getApiConfiguration()
ToolCall(q, t, m) ==
    /\ rpc \in {"idle", "done"}
    /\ rentry' = "tool"
    /\ rargs' = Args(q, "", t, m)
    /\ IF q = ""
         THEN /\ rpc' = "done"
              /\ rout' = Value(ToolError("Query cannot be empty"))
       ELSE IF ~isReady
         THEN /\ rpc' = "done"
              /\ rout' = Value(ToolError("RAG service is not ready"))
       ELSE /\ rpc' = "config"
            /\ rout' = Null
    /\ httpCalls' = 0
    /\ response' = Null
    /\ UNCHANGED <<file, svcVars, observed, fmtVars, detVars, relVars, vecVars, ctxVars>>

\* SearchActuarialDocsToolHandler.execute, up to the await in
\* executeRagSearchTool (or to its return)
HandlerCall(q) ==
    /\ rpc \in {"idle", "done"}
    /\ rentry' = "handler"
    /\ rargs' = Args(q, "", EntryTopK, EntryMinScore)
    /\ IF q = ""
         THEN /\ rpc' = "done"
              /\ rout' = Value([said |-> Absent, telemetry |-> Absent,
                                response |-> FormatToolError("query parameter is required")])
       ELSE IF ~isReady
         THEN /\ rpc' = "done"
              /\ rout' = ViaHandler("handler", Value(ToolError("RAG service is not ready")))
       ELSE /\ rpc' = "config"
            /\ rout' = Null
    /\ httpCalls' = 0
    /\ response' = Null
    /\ UNCHANGED <<file, svcVars, observed, fmtVars, detVars, relVars, vecVars, ctxVars>>

\* the catch block answering with the error, whatever the entry point
CaughtSearchErrorExposed(entry, err) == Value(ToolError(err))

\* the catch block of the entry point around search(): the error err is
\* logged, and the section resolves to undefined while the tool returns it
CaughtSearchError(entry, err) ==
    IF entry = "section" THEN Value(Undefined) ELSE Value(SearchFailure(err))

\* the read of the API configuration completes; with a key the entry point
\* calls search(), which issues its fetch()
ConfigDone(cfg) ==
    /\ rpc = "config"
    /\ IF cfg.kind = "reject"
         THEN /\ rpc' = "done"
              /\ rout' = Throw("getApiConfiguration failed")
              /\ UNCHANGED <<rargs, httpCalls>>
       ELSE IF cfg.key = ""
         THEN /\ rpc' = "done"
              /\ rout' = IF rentry = "section" THEN Value(Undefined)
                         ELSE ViaHandler(rentry,
                                  Value(ToolError("No Gemini API key configured")))
              /\ UNCHANGED <<rargs, httpCalls>>
       ELSE /\ rargs' = [rargs EXCEPT !.key = cfg.key]
            /\ LET err == SearchPrecheck(cfg.key)
               IN IF err # NoError
                    THEN /\ rpc' = "done"
                         /\ rout' = ViaHandler(rentry, CaughtSearchError(rentry, err))
                         /\ UNCHANGED httpCalls
                  ELSE /\ rpc' = "fetching"
                       /\ rout' = Null
                       /\ httpCalls' = httpCalls + 1
    /\ UNCHANGED <<file, svcVars, observed, rentry, response, fmtVars, detVars, relVars, vecVars, ctxVars>>

\* what the entry point makes of the result of search()
EntryResult(entry, found, query) ==
    IF entry = "search" THEN found
    ELSE IF ~found.ok THEN CaughtSearchError(entry, found.error)
    ELSE IF Len(found.value) = 0
      THEN IF entry = "section" THEN Value(Undefined)
           ELSE Value([kind |-> "nomatch"])
    ELSE LET ragContext == formatRagContext(found.value, query)
         IN IF entry = "section" /\ ragContext = <<>> THEN Value(Undefined)
            ELSE Value([kind |-> "context", text |-> ragContext])

\* the embedding call completes; search() runs to its end and the entry
\* point that called it returns
FetchDone(resp) ==
    /\ rpc = "fetching"
    /\ rpc' = "done"
    /\ response' = resp
    /\ rout' = ViaHandler(rentry,
                    EntryResult(rentry, SearchBody(resp, rargs.topK, rargs.minScore),
                                rargs.query))
    /\ UNCHANGED <<file, svcVars, observed, rentry, rargs, httpCalls, fmtVars, detVars, relVars, vecVars, ctxVars>>

(***************************************************************************)
(* formatCardsForPrompt with a token budget (core/capabilities/format.ts). *)
(* A string is held as its length, which is all the budget reads.          *)
(***************************************************************************)
\* lengths of long: none, two small ones, and one that costs 600 tokens
LongLens == {0, 9, 49, 2358}
ShortLens == {1, 5}

\* a card with a one-character title and version and no sources
Card(l, s) ==
    [title |-> 1, version |-> 1, long |-> l, short |-> s,
     sources |-> [present |-> FALSE]]

CardOptions == { Card(l, s) : l \in LongLens, s \in ShortLens }

\* the cards of a call: each with its place in the list as its id
CardsWithIds(cs) ==
    [k \in 1..Len(cs) |->
        [id |-> k, title |-> cs[k].title, version |-> cs[k].version,
         long |-> cs[k].long, short |-> cs[k].short, sources |-> cs[k].sources]]

CardLists == { CardsWithIds(cs) : cs \in SeqsUpTo(CardOptions, MaxCards) }
Budgets == 0..MaxBudget \cup {CARD_BUDGET_TOKENS}

\* Math.ceil(s.length / 4)
estimateTokens(len) == (len + 3) \div 4

RECURSIVE SumLens(_, _)
SumLens(ls, i) == IF i > Len(ls) THEN 0 ELSE ls[i] + SumLens(ls, i + 1)

\* c.sources?.join("; ") ?? "-"
SourcesLen(c) ==
    IF ~c.sources.present THEN 1
    ELSE IF Len(c.sources.items) = 0 THEN 0
    ELSE SumLens(c.sources.items, 1) + 2 * (Len(c.sources.items) - 1)

\* `### Capability Card: ${c.title} (v${c.version})\n${body}\n\n_Sources_: ${...}`
BlockLen(c, body) ==
    CardHeadingLen + c.title + 3 + c.version + 2 + body + 2 + SourcesLabelLen
        + SourcesLen(c)

\* the short text taken even when there is a long one
ShortOnly(c) == c.short
\* c.long || c.short
LongOrShort(c) == IF c.long # 0 THEN c.long ELSE c.short

\* the test of used + cost > budget left out
FitsAlways(cost) == TRUE
\* !(used + cost > budget)
Fits(cost) == ~(used + cost > budget)

\* one iteration of the loop over the cards
FormatStep ==
    /\ fout = Null
    /\ fpos <= Len(cards)
    /\ LET c == cards[fpos]
           block == BlockLen(c, LongOrShort(c))
           cost == estimateTokens(block)
           shortBlock == BlockLen(c, c.short)
           shortCost == estimateTokens(shortBlock)
       IN IF ~Fits(cost)
            THEN IF ~Fits(shortCost)
                   THEN UNCHANGED <<blocks, used>>
                 ELSE /\ blocks' = Append(blocks, [id |-> c.id, kind |-> "short",
                                                   length |-> shortBlock])
                      /\ used' = used + shortCost
          ELSE /\ blocks' = Append(blocks, [id |-> c.id, kind |-> "full",
                                            length |-> block])
               /\ used' = used + cost
    /\ fpos' = fpos + 1
    /\ UNCHANGED <<file, svcVars, observed, reqVars, cards, budget, fout,
                   detVars, relVars, vecVars, ctxVars>>

\* ["---", preamble, ...blocks, "---"].join("\n")
JoinedLen(bs) ==
    RuleLen + PreambleLen + SumLens([k \in 1..Len(bs) |-> bs[k].length], 1)
        + RuleLen + (Len(bs) + 2)

\* the end of the loop: the string returned
FormatReturn ==
    /\ fout = Null
    /\ fpos > Len(cards)
    /\ fout' = IF Len(blocks) = 0 THEN [length |-> 0, items |-> <<>>]
               ELSE [length |-> JoinedLen(blocks), items |-> blocks]
    /\ UNCHANGED <<file, svcVars, observed, reqVars, cards, budget, fpos, used,
                   blocks, detVars, relVars, vecVars, ctxVars>>

(***************************************************************************)
(* detectCards (core/capabilities/detect.ts).  A string is a sequence of   *)
(* characters over a, b, x, their capitals A and B, and the newline.       *)
(***************************************************************************)
NewLine == "\n"

\* String.prototype.toLowerCase, one character
LowerChar(ch) == CASE ch = "A" -> "a" [] ch = "B" -> "b" [] OTHER -> ch

toLowerCase(str) == [i \in 1..Len(str) |-> LowerChar(str[i])]

\* String.prototype.includes
includes(text, k) ==
    \E i \in 0..(Len(text) - Len(k)) : SubSeq(text, i + 1, i + Len(k)) = k

\* Array.prototype.join
RECURSIVE join(_, _)
join(strs, sep) ==
    IF Len(strs) = 0 THEN <<>>
    ELSE IF Len(strs) = 1 THEN strs[1]
    ELSE strs[1] \o sep \o join(Tail(strs), sep)

\* the window taken over every turn
LastTurnsAll(turns) == turns

\* userTurns.slice(-3)
LastTurns(turns) ==
    SubSeq(turns, IF Len(turns) > WindowTurns THEN Len(turns) - WindowTurns + 1 ELSE 1,
           Len(turns))

\* userTurns.slice(-3).join("\n").toLowerCase()
WindowText(turns) == toLowerCase(join(LastTurns(turns), <<NewLine>>))

TurnTexts == { <<"A", "b">>, <<"x">>, <<>> }
Terms == { <<"a">>, <<"A", "B">>, <<"x">> }
AnyLists == { <<>>, <<<<"a">>>>, <<<<"A", "B">>>>, <<<<"x">>>>, <<<<"a">>, <<"x">>>> }
OptionalLists == { Absent, Present(<<>>) } \cup { Present(<<t>>) : t \in Terms }

Keyword(any, all, none) == [kind |-> "keyword", any |-> any, all |-> all, none |-> none]
Regex(pattern, flags) == [kind |-> "regex", pattern |-> pattern, flags |-> flags]

KeywordTriggers ==
    { Keyword(any, all, none) :
        any \in AnyLists, all \in OptionalLists, none \in OptionalLists }

\* literal patterns, and one that does not compile
RegexTriggers ==
    { Regex(<<"a", "b">>, ""), Regex(<<"A", "B">>, ""), Regex(<<"A", "B">>, "i"),
      Regex(<<"(">>, "") }

\* a card: its rule, and its texts held as their lengths
RuleCard(i, imp, trigs) ==
    [id |-> i, importance |-> imp, triggers |-> trigs, title |-> 1, version |-> 1,
     long |-> 49, short |-> 5, content |-> 49, sources |-> [present |-> FALSE]]

\* one card more than detectCards returns at most, on alternating keywords
LargeRegistry ==
    [i \in 1..(MAX_CARDS + 1) |->
        RuleCard(i, Absent,
                 <<Keyword(<<IF i % 2 = 0 THEN <<"x">> ELSE <<"a">>>>, Absent, Absent)>>)]

\* registries of one card with one trigger, a few of two cards, and the
\* large one
Registries ==
    {LargeRegistry} \cup
    { <<RuleCard(1, Absent, <<t>>)>> : t \in KeywordTriggers \cup RegexTriggers } \cup
    { <<RuleCard(1, imp, <<t1, t2>>), RuleCard(2, Present(5), <<t3>>)>> :
        imp \in {Absent, Present(5)},
        t1 \in {Keyword(<<<<"x">>>>, Absent, Present(<<<<"a">>>>))},
        t2 \in {Keyword(<<<<"a">>, <<"x">>>>, Absent, Absent), Regex(<<"A", "B">>, "i")},
        t3 \in {Keyword(<<<<"A", "B">>>>, Absent, Absent),
                Keyword(<<<<"a">>>>, Present(<<<<"x">>>>), Absent)} }

\* text.includes(k.toLowerCase()), without the toLowerCase
TermHitCaseSensitive(text, k) == includes(text, k)
\* text.includes(k.toLowerCase())
TermHit(text, k) == includes(text, toLowerCase(k))

\* (trig.all ?? []), (trig.none ?? [])
OrEmpty(opt) == IF opt.present THEN opt.value ELSE <<>>

\* anyHit && allHit && !noneHit
KeywordMatches(trig, text) ==
    LET anyHit == \E i \in 1..Len(trig.any) : TermHit(text, trig.any[i])
        allHit == \A i \in 1..Len(OrEmpty(trig.all)) : TermHit(text, OrEmpty(trig.all)[i])
        noneHit == \E i \in 1..Len(OrEmpty(trig.none)) : TermHit(text, OrEmpty(trig.none)[i])
    IN anyHit /\ allHit /\ ~noneHit

\* whether new RegExp(pattern, flags) compiles
Compiles(trig) == \A i \in 1..Len(trig.pattern) : trig.pattern[i] # "("

\* re.test(text) for a literal pattern
RegexMatches(trig, text) ==
    IF trig.flags = "i" THEN includes(toLowerCase(text), toLowerCase(trig.pattern))
    ELSE includes(text, trig.pattern)

\* trig.any.filter((k) => text.includes(k.toLowerCase()))
RECURSIVE HitTerms(_, _, _)
HitTerms(any, text, i) ==
    IF i > Len(any) THEN <<>>
    ELSE (IF TermHit(text, any[i]) THEN <<any[i]>> ELSE <<>>)
            \o HitTerms(any, text, i + 1)

\* the loop over card.triggers: the signals pushed, a flag for matched, or
\* the error of a pattern that does not compile
RECURSIVE EvalTriggers(_, _, _, _, _)
EvalTriggers(trigs, text, i, matched, signals) ==
    IF i > Len(trigs) THEN Value([matched |-> matched, signals |-> signals])
    ELSE LET trig == trigs[i]
         IN IF trig.kind = "keyword"
              THEN IF KeywordMatches(trig, text)
                     THEN EvalTriggers(trigs, text, i + 1, TRUE,
                                       signals \o HitTerms(trig.any, text, 1))
                   ELSE EvalTriggers(trigs, text, i + 1, matched, signals)
            ELSE IF ~Compiles(trig) THEN Throw("Invalid regular expression")
            ELSE IF RegexMatches(trig, text)
              THEN EvalTriggers(trigs, text, i + 1, TRUE,
                                Append(signals, <<"regex:">> \o trig.pattern))
            ELSE EvalTriggers(trigs, text, i + 1, matched, signals)

Min(a, b) == IF a < b THEN a ELSE b

\* (card.importance ?? 3) + Math.min(2, signals.length)
CardScore(card, signals) ==
    (IF card.importance.present THEN card.importance.value ELSE DefaultImportance)
        + Min(MaxSignalBonus, Len(signals))

\* the loop over the registry
RECURSIVE CollectHits(_, _, _, _)
CollectHits(reg, text, i, hits) ==
    IF i > Len(reg) THEN Value(hits)
    ELSE LET r == EvalTriggers(reg[i].triggers, text, 1, FALSE, <<>>)
         IN IF ~r.ok THEN r
            ELSE IF r.value.matched
              THEN CollectHits(reg, text, i + 1,
                               Append(hits, [card |-> reg[i],
                                             signals |-> r.value.signals,
                                             score |-> CardScore(reg[i], r.value.signals)]))
            ELSE CollectHits(reg, text, i + 1, hits)

detectCards(turns, reg) ==
    LET hits == CollectHits(reg, WindowText(turns), 1, <<>>)
    IN IF ~hits.ok THEN hits ELSE Value(SortByScore(hits.value))

\* one call of detectCards
Detect ==
    /\ detected = Null
    /\ detected' = detectCards(userTurns, registry)
    /\ UNCHANGED <<file, svcVars, observed, reqVars, fmtVars, userTurns, registry,
                   recent, relVars, vecVars, ctxVars>>

(***************************************************************************)
(* detectCards with recency scores (cards/ultimate-capecod.ts)             *)
(***************************************************************************)
\* userTurns[userTurns.length - 1]?.toLowerCase() ?? ""
LastTurn(turns) ==
    IF Len(turns) = 0 THEN <<>> ELSE toLowerCase(turns[Len(turns)])

\* sig.startsWith("regex:") ? sig.substring(6) : sig.toLowerCase()
SignalPattern(sig) ==
    IF Len(sig) > 0 /\ sig[1] = "regex:" THEN Tail(sig) ELSE toLowerCase(sig)

\* inLastTurn ? 1 : 0
RecencyScore(signals, lastTurn) ==
    IF \E i \in 1..Len(signals) : includes(lastTurn, SignalPattern(signals[i]))
      THEN 1 ELSE 0

\* the loop over the registry
RECURSIVE CollectHitsByRecency(_, _, _, _, _)
CollectHitsByRecency(reg, text, lastTurn, i, hits) ==
    IF i > Len(reg) THEN Value(hits)
    ELSE LET r == EvalTriggers(reg[i].triggers, text, 1, FALSE, <<>>)
         IN IF ~r.ok THEN r
            ELSE IF r.value.matched
              THEN CollectHitsByRecency(reg, text, lastTurn, i + 1,
                       Append(hits, [card |-> reg[i],
                                     signals |-> r.value.signals,
                                     score |-> RecencyScore(r.value.signals, lastTurn)]))
            ELSE CollectHitsByRecency(reg, text, lastTurn, i + 1, hits)

\* the last MAX_CARDS detections kept instead of the first
LastCards(sorted) ==
    SubSeq(sorted, Len(sorted) - Min(MAX_CARDS, Len(sorted)) + 1, Len(sorted))

\* sorted.slice(0, MAX_CARDS)
FirstCards(sorted) == SubSeq(sorted, 1, Min(MAX_CARDS, Len(sorted)))

detectCardsByRecency(turns, reg) ==
    LET hits == CollectHitsByRecency(reg, WindowText(turns), LastTurn(turns), 1, <<>>)
    IN IF ~hits.ok THEN hits ELSE Value(FirstCards(SortByScore(hits.value)))

\* one call of the recency-scored detectCards
DetectByRecency ==
    /\ recent = Null
    /\ recent' = detectCardsByRecency(userTurns, registry)
    /\ UNCHANGED <<file, svcVars, observed, reqVars, fmtVars, userTurns, registry,
                   detected, relVars, vecVars, ctxVars>>

(***************************************************************************)
(* getRelevantCapabilityCards (core/capabilities/index.ts), with the       *)
(* budgeted formatCardsForPrompt, and its variant that hands the signals   *)
(* to formatCardsForPrompt                                                 *)
(***************************************************************************)
\* one card whose keyword trigger has more terms than the block lists signals
ChattyRegistry ==
    << RuleCard(1, Absent,
                << Keyword(<< <<"a">>, <<"b">>, <<"x">>, <<"a", "b">>, <<"A">>, <<"B">> >>,
                           Absent, Absent) >>) >>

\* the registries getRelevantCapabilityCards is built with
RelevantRegistries ==
    { LargeRegistry, ChattyRegistry, <<RuleCard(1, Absent, <<Regex(<<"(">>, "")>>)>> } \cup
    { reg \in Registries : Len(reg) = 2 }

\* the tokenBudget argument: left out, or a small budget
TokenBudgets == {Absent} \cup { Present(b) : b \in {0, 12, 23, 35} }

\* detectCards, as the module ./detect exports it
DetectCards(scoring, turns, reg) ==
    IF scoring = "importance" THEN detectCards(turns, reg)
    ELSE detectCardsByRecency(turns, reg)

\* detections.map((d) => d.card)
SelectedCards(detections) == [k \in 1..Len(detections) |-> detections[k].card]

\* selected.map((c) => c.id)
CardIds(selected) == [k \in 1..Len(selected) |-> selected[k].id]

\* detections.flatMap((d) => d.signals)
RECURSIVE FlatSignals(_, _)
FlatSignals(detections, i) ==
    IF i > Len(detections) THEN <<>>
    ELSE detections[i].signals \o FlatSignals(detections, i + 1)

\* the object getRelevantCapabilityCards returns
CardResult(detections, cardsBlock) ==
    [cardsFound |-> Len(SelectedCards(detections)) > 0,
     cardIds |-> CardIds(SelectedCards(detections)),
     signals |-> FlatSignals(detections, 1),
     cardsBlock |-> cardsBlock]

Formatting == relevant # Null /\ relevant.stage = "formatting"

\* getRelevantCapabilityCards(userMessages, tokenBudget), up to the loop of
\* formatCardsForPrompt(selected, tokenBudget)
RelevantCall(tokenBudget) ==
    /\ relevant = Null
    /\ LET detections == DetectCards(policy, userTurns, registry)
       IN IF ~detections.ok
            THEN /\ relevant' = [stage |-> "threw", api |-> "budget",
                                 error |-> detections.error]
                 /\ UNCHANGED fmtVars
          ELSE /\ relevant' = [stage |-> "formatting", api |-> "budget",
                               detections |-> detections.value]
               /\ cards' = SelectedCards(detections.value)
               /\ budget' = IF tokenBudget.present THEN tokenBudget.value
                            ELSE CARD_BUDGET_TOKENS
               /\ fpos' = 1
               /\ used' = 0
               /\ blocks' = <<>>
               /\ fout' = Null
    /\ UNCHANGED <<file, svcVars, observed, reqVars, detVars, policy, vecVars, ctxVars>>

\* formatCardsForPrompt has returned: getRelevantCapabilityCards returns
RelevantReturn ==
    /\ Formatting
    /\ fout # Null
    /\ relevant' = [stage |-> "returned", api |-> "budget",
                    result |-> CardResult(relevant.detections, fout)]
    /\ UNCHANGED <<file, svcVars, observed, reqVars, fmtVars, detVars, policy,
                   vecVars, ctxVars>>

\* the card blocks of formatCardsForPrompt(cards, signals)
CardBlocks(cs) ==
    [k \in 1..Len(cs) |->
        [title |-> cs[k].title, version |-> cs[k].version,
         content |-> cs[k].content, sources |-> cs[k].sources]]

\* signals.slice(0, 5)
FirstSignals(signals) == SubSeq(signals, 1, Min(SignalsListed, Len(signals)))

\* formatCardsForPrompt(cards, signals): the lines that are joined with
\* "\n"; the empty string is the empty sequence
formatCardsForPrompt(cs, signals) ==
    IF Len(cs) = 0 THEN <<>>
    ELSE << Line("CAPABILITY CARDS: MANDATORY TECHNICAL GUIDANCE"),
            [active |-> Len(cs), cardList |-> CardIds(cs),
             signalInfo |-> IF Len(signals) > 0 THEN Present(FirstSignals(signals))
                            ELSE Absent],
            Line("MANDATORY WORKFLOW"),
            Line("---") >>
         \o CardBlocks(cs)
         \o << Line("---"), Line("END OF CAPABILITY CARDS") >>

\* getRelevantCapabilityCards(userMessages), the variant whose block names
\* the active cards and their signals
GuidanceCall ==
    /\ relevant = Null
    /\ LET detections == DetectCards(policy, userTurns, registry)
       IN IF ~detections.ok
            THEN relevant' = [stage |-> "threw", api |-> "signals",
                              error |-> detections.error]
          ELSE relevant' =
                 [stage |-> "returned", api |-> "signals",
                  result |-> CardResult(detections.value,
                                formatCardsForPrompt(SelectedCards(detections.value),
                                                     FlatSignals(detections.value, 1)))]
    /\ UNCHANGED <<file, svcVars, observed, reqVars, fmtVars, detVars, policy,
                   vecVars, ctxVars>>

(***************************************************************************)
(* Specifications                                                          *)
(***************************************************************************)
InitService ==
    /\ index = Null
    /\ parentChunkMap = EmptyMap
    /\ isLoading = FALSE
    /\ loadError = NoError
    /\ pc = [c \in Callers |-> "idle"]
    /\ thrown = [c \in Callers |-> NoError]
    /\ observed = Null

InitRequest ==
    /\ rpc = "idle"
    /\ rentry = "none"
    /\ rargs = Null
    /\ response = Null
    /\ rout = Null
    /\ httpCalls = 0

\* no call of formatCardsForPrompt
InitNoFormat ==
    /\ cards = <<>>
    /\ budget = 0
    /\ fpos = 1
    /\ used = 0
    /\ blocks = <<>>
    /\ fout = Null

\* no call of detectCards
InitNoDetect ==
    /\ userTurns = <<>>
    /\ registry = <<>>
    /\ detected = Null
    /\ recent = Null

\* no call of getRelevantCapabilityCards
InitNoRelevant ==
    /\ policy = "importance"
    /\ relevant = Null

\* no call of cosineSimilarity
InitNoVector ==
    /\ vecA = <<>>
    /\ vecB = <<>>
    /\ similarity = Null

\* no call of formatRagContext
InitNoContext ==
    /\ ragResults = <<>>
    /\ ragQuery = Absent
    /\ ragText = Null

Init ==
    /\ file \in FewFiles
    /\ InitService
    /\ InitRequest
    /\ InitNoFormat
    /\ InitNoDetect
    /\ InitNoRelevant
    /\ InitNoVector
    /\ InitNoContext

Next ==
    \/ \E c \in Callers : InitializeCall(c)
    \/ \E c \in Callers : ReadFileDone(c)
    \/ \E c \in Callers : WaitPoll(c)
    \/ GetStatus
    \/ \E q \in Queries, k \in Keys :
          SearchCall(q, k, DefaultTopK, DefaultMinScore)
    \/ \E q \in Queries : SectionCall(q)
    \/ \E q \in Queries : ToolCall(q, EntryTopK, EntryMinScore)
    \/ \E q \in Queries : HandlerCall(q)
    \/ \E cfg \in ConfigReads : ConfigDone(cfg)
    \/ \E resp \in Responses : FetchDone(resp)

Spec == Init /\ [][Next]_vars

\* the ranking of search() over every index file within the bounds: one
\* caller loads the index, then one search is made with a key and a query
InitSearch ==
    /\ file \in AllFiles
    /\ InitService
    /\ InitRequest
    /\ InitNoFormat
    /\ InitNoDetect
    /\ InitNoRelevant
    /\ InitNoVector
    /\ InitNoContext

NextSearch ==
    \/ InitializeCall(1)
    \/ ReadFileDone(1)
    \/ /\ rpc = "idle"
       /\ \E t \in 0..MaxTopK, m \in MinScores : SearchCall("ibnr", "k", t, m)
    \/ \E resp \in Responses : FetchDone(resp)

SpecSearch == InitSearch /\ [][NextSearch]_vars

\* formatCardsForPrompt(cards, budget) on every card list and budget
\* within the bounds
InitCards ==
    /\ file = MissingFile
    /\ InitService
    /\ InitRequest
    /\ cards \in CardLists
    /\ budget \in Budgets
    /\ fpos = 1
    /\ used = 0
    /\ blocks = <<>>
    /\ fout = Null
    /\ InitNoDetect
    /\ InitNoRelevant
    /\ InitNoVector
    /\ InitNoContext

NextCards ==
    \/ FormatStep
    \/ FormatReturn

SpecCards == InitCards /\ [][NextCards]_vars

\* detectCards(userTurns, registry) on every list of turns within the
\* bounds and every registry of Registries
InitDetect ==
    /\ file = MissingFile
    /\ InitService
    /\ InitRequest
    /\ InitNoFormat
    /\ userTurns \in SeqsUpTo(TurnTexts, MaxTurns)
    /\ registry \in Registries
    /\ detected = Null
    /\ recent = Null
    /\ InitNoRelevant
    /\ InitNoVector
    /\ InitNoContext

NextDetect ==
    \/ Detect
    \/ DetectByRecency

SpecDetect == InitDetect /\ [][NextDetect]_vars

\* cosineSimilarity(a, b) on every pair of Vectors
InitVector ==
    /\ file = MissingFile
    /\ InitService
    /\ InitRequest
    /\ InitNoFormat
    /\ InitNoDetect
    /\ InitNoRelevant
    /\ vecA \in Vectors
    /\ vecB \in Vectors
    /\ similarity = Null
    /\ InitNoContext

NextVector == CosineCall

SpecVector == InitVector /\ [][NextVector]_vars

\* the results formatRagContext is handed: parent chunks with every kind of
\* metadata, in any order
SearchResults ==
    { [parentChunk |-> ParentChunk(i, c),
       matchedChildChunk |-> WithIds(<<ChildChunk(i, <<1, 0>>)>>)[1],
       score |-> ScoreScale] :
        i \in ParentIds, c \in {"a", "b", "c"} }

\* formatRagContext(results, query) on every list of at most MaxTopK results
InitContext ==
    /\ file = MissingFile
    /\ InitService
    /\ InitRequest
    /\ InitNoFormat
    /\ InitNoDetect
    /\ InitNoRelevant
    /\ InitNoVector
    /\ ragResults \in SeqsUpTo(SearchResults, MaxTopK)
    /\ ragQuery \in {Absent} \cup {Present(q) : q \in Queries}
    /\ ragText = Null

NextContext == FormatContextCall

SpecContext == InitContext /\ [][NextContext]_vars

\* getRelevantCapabilityCards on every list of turns within the bounds,
\* every registry of RelevantRegistries and either detectCards
InitRelevant ==
    /\ file = MissingFile
    /\ InitService
    /\ InitRequest
    /\ InitNoFormat
    /\ userTurns \in SeqsUpTo(TurnTexts, MaxTurns)
    /\ registry \in RelevantRegistries
    /\ detected = Null
    /\ recent = Null
    /\ policy \in {"importance", "recency"}
    /\ relevant = Null
    /\ InitNoVector
    /\ InitNoContext

NextRelevant ==
    \/ \E tokenBudget \in TokenBudgets : RelevantCall(tokenBudget)
    \/ Formatting /\ FormatStep
    \/ Formatting /\ FormatReturn
    \/ RelevantReturn
    \/ GuidanceCall

SpecRelevant == InitRelevant /\ [][NextRelevant]_vars

\* the initialize() calls alone, under fair scheduling: a file read that
\* was started completes, and the 100 ms timer of a waiting caller keeps
\* firing, so that a caller whose flag is clear again and again gets past it
InitLoad ==
    /\ file \in FewFiles
    /\ InitService
    /\ InitRequest
    /\ InitNoFormat
    /\ InitNoDetect
    /\ InitNoRelevant
    /\ InitNoVector
    /\ InitNoContext

NextLoad ==
    \/ \E c \in Callers : InitializeCall(c)
    \/ \E c \in Callers : ReadFileDone(c)
    \/ \E c \in Callers : WaitPoll(c)

\* strong fairness for the poll: another caller may start a load again
\* after a failed one, which sets the flag again
FairLoad ==
    \A c \in Callers : WF_vars(ReadFileDone(c)) /\ SF_vars(WaitPoll(c))

SpecLoad == InitLoad /\ [][NextLoad]_vars /\ FairLoad

(***************************************************************************)
(* Properties                                                              *)
(***************************************************************************)
SearchDone == rentry = "search" /\ rpc = "done"
SearchReturned == SearchDone /\ rout.ok

\* C1: at most one index load (file read and parse) is in flight at any
\* time, whatever the interleaving of the initialize() calls
SingleFlightLoad == Cardinality({c \in Callers : pc[c] = "reading"}) <= 1

\* a caller arrived during the load of another and waits for it
WaitingOnLoad ==
    \E c, d \in Callers : pc[c] = "reading" /\ pc[d] = "waiting"

\* C2: search() never returns more than topK results, topK = 0 included
AtMostTopK == SearchReturned => Len(rout.value) <= rargs.topK

\* C3: search() never returns two results with the same parentChunk.id
NoDuplicateParent ==
    SearchReturned =>
        \A i, j \in 1..Len(rout.value) :
            i # j => rout.value[i].parentChunk.id # rout.value[j].parentChunk.id

\* child k of the loaded index scores at or above the threshold of the search
Qualifies(k) ==
    LET s == cosineSimilarity(response.values, index.child_chunks[k].embedding)
    IN s.ok /\ s.value >= rargs.minScore

\* two qualifying children of one known parent, room for both, one result
SharedParentDeduplicated ==
    /\ SearchReturned
    /\ rargs.topK >= 2
    /\ Len(rout.value) = 1
    /\ \E i, j \in 1..Len(index.child_chunks) :
         /\ i # j
         /\ index.child_chunks[i].parent_id = index.child_chunks[j].parent_id
         /\ index.child_chunks[i].parent_id \in DOMAIN parentChunkMap
         /\ Qualifies(i)
         /\ Qualifies(j)

\* C4: every result of search() has score >= minScore
ResultsAtOrAboveMinScore ==
    SearchReturned =>
        \A i \in 1..Len(rout.value) : rout.value[i].score >= rargs.minScore

\* one child of a known parent is returned and another is below the threshold
LowScoreFilteredOut ==
    /\ SearchReturned
    /\ Len(rout.value) >= 1
    /\ \E k \in 1..Len(index.child_chunks) :
         /\ index.child_chunks[k].parent_id \in DOMAIN parentChunkMap
         /\ ~Qualifies(k)

\* C5: the block formatCardsForPrompt returns never costs more than the
\* budget (ceil(length / 4) <= budget)
BlockWithinBudget ==
    fout # Null => estimateTokens(fout.length) <= budget

\* C6: getActuarialRagSection never rejects, and resolves to "no context"
\* whenever the retrieval failed
SectionNeverRejects ==
    (rentry = "section" /\ rpc = "done") =>
        /\ rout.ok
        /\ (response # Null /\ response.kind # "ok") => rout.value = Undefined

\* C7: with an empty query or no credential, search() fails with an error
\* and makes no HTTP call
NoFetchOnInvalidInput ==
    (rentry = "search" /\ rpc \in {"fetching", "done"}
        /\ (rargs.query = "" \/ rargs.key = "")) =>
        /\ httpCalls = 0
        /\ rpc = "done"
        /\ ~rout.ok

\* the index file is missing, of an unsupported version, or has an empty
\* parent-chunk or child-chunk array
FileInvalid ==
    \/ ~file.exists
    \/ file.version # 2
    \/ Len(file.parent_chunks) = 0
    \/ Len(file.child_chunks) = 0

\* the initialize() call of c, which performs the load itself, ends in this step
LoadAttemptEnds(c) ==
    /\ pc'[c] # pc[c]
    /\ pc'[c] # "reading"
    /\ \/ pc[c] = "reading"
       \/ pc[c] # "waiting" /\ index = Null /\ ~isLoading

\* C8: an initialize() that loads a missing, unsupported or empty index
\* throws; after the throw no index is loaded, isReady() is false, the
\* in-progress flag is clear and the error thrown is the load error
FailedLoadLeavesNothing ==
    [][\A c \in Callers :
         /\ (LoadAttemptEnds(c) /\ FileInvalid) =>
                (pc'[c] = "threw" /\ thrown'[c] # NoError)
         /\ (pc'[c] = "threw" /\ (pc[c] # "threw" \/ thrown'[c] # thrown[c])) =>
                /\ index' = Null
                /\ ~isReady'
                /\ ~isLoading'
                /\ loadError' = thrown'[c]]_vars

\* a load of an index file with no child chunks has thrown
EmptyIndexRejected ==
    \E c \in Callers :
        /\ pc[c] = "threw"
        /\ file.exists
        /\ file.version = 2
        /\ Len(file.parent_chunks) > 0
        /\ Len(file.child_chunks) = 0
        /\ loadError = thrown[c]
        /\ observed # Null
        /\ ~observed.ready

\* C9: once an index is loaded, no call changes it or the parent map, no
\* load starts again, isReady() stays true, and every initialize() returns
\* at once
LoadedIndexIsFrozen ==
    [][index # Null =>
         /\ index' = index
         /\ parentChunkMap' = parentChunkMap
         /\ ~isLoading'
         /\ isReady'
         /\ \A c \in Callers :
              /\ pc'[c] # "reading"
              /\ pc'[c] # pc[c] => pc'[c] = "returned"]_vars

\* a loaded service on which initialize(), search() and the getters have run
CallsOnLoadedService ==
    /\ index # Null
    /\ \A c \in Callers : pc[c] = "returned"
    /\ SearchReturned
    /\ observed # Null
    /\ observed.ready

\* the raw text of the last three turns, as the user wrote it
RawWindow == join(LastTurns(userTurns), <<NewLine>>)

SameLetter(x, y) == x = y \/ {x, y} \in {{"a", "A"}, {"b", "B"}}

\* term occurs in w at some offset, letter case ignored
OccursIgnoringCase(term, w) ==
    \E off \in 0..(Len(w) - Len(term)) :
        \A j \in 1..Len(term) : SameLetter(w[off + j], term[j])

\* the keyword clause of the specification: some term of any, every term of
\* all when present, no term of none when present
ClauseShouldMatch(trig, w) ==
    /\ \E i \in 1..Len(trig.any) : OccursIgnoringCase(trig.any[i], w)
    /\ trig.all.present =>
         \A i \in 1..Len(trig.all.value) : OccursIgnoringCase(trig.all.value[i], w)
    /\ trig.none.present =>
         \A i \in 1..Len(trig.none.value) : ~OccursIgnoringCase(trig.none.value[i], w)

KeywordOnly(card) ==
    \A i \in 1..Len(card.triggers) : card.triggers[i].kind = "keyword"

Reported(card) ==
    \E h \in 1..Len(detected.value) : detected.value[h].card.id = card.id

\* C10: a card whose triggers are keyword clauses is detected exactly when
\* one of its clauses has a term of any in the window, every term of all in
\* the window and no term of none in the window, letter case ignored
KeywordClauseSemantics ==
    (detected # Null /\ detected.ok) =>
        \A r \in 1..Len(registry) :
            KeywordOnly(registry[r]) =>
                (Reported(registry[r]) <=>
                    \E i \in 1..Len(registry[r].triggers) :
                        ClauseShouldMatch(registry[r].triggers[i], RawWindow))

\* a term of any occurs in another letter case, a term of none occurs too,
\* and the card is not detected
NoneTermVetoes ==
    /\ detected # Null
    /\ detected.ok
    /\ Len(registry) = 1
    /\ Len(detected.value) = 0
    /\ LET trig == registry[1].triggers[1]
       IN /\ trig.kind = "keyword"
          /\ \E i \in 1..Len(trig.any) :
               /\ OccursIgnoringCase(trig.any[i], RawWindow)
               /\ ~includes(RawWindow, trig.any[i])
          /\ trig.none.present
          /\ \E i \in 1..Len(trig.none.value) :
               OccursIgnoringCase(trig.none.value[i], RawWindow)

\* C11: no call of detectCards throws because of a rule definition: a
\* trigger whose pattern does not compile never reaches a request
RuleMatchingNeverThrows ==
    /\ detected # Null => detected.ok
    /\ recent # Null => recent.ok

\* the index holds one parent chunk and one child chunk that references it
OnePair ==
    /\ index # Null
    /\ Len(index.parent_chunks) = 1
    /\ Len(index.child_chunks) = 1
    /\ index.child_chunks[1].parent_id = index.parent_chunks[1].id

\* the embedding provider answered with the embedding of child chunk k
QueryEqualsChild(k) ==
    /\ response # Null
    /\ response.kind = "ok"
    /\ response.values = index.child_chunks[k].embedding

AllZero(v) == \A i \in 1..Len(v) : v[i] = 0

\* one result, of score 1, referencing the only parent
OnlyParentWithScoreOne ==
    /\ rout.ok
    /\ Len(rout.value) = 1
    /\ rout.value[1].parentChunk.id = index.parent_chunks[1].id
    /\ rout.value[1].score = ScoreScale

ParentResolves(pid) ==
    \E j \in 1..Len(index.parent_chunks) : index.parent_chunks[j].id = pid

\* the child chunks that score at or above minScore and have a parent
EligibleChildren ==
    { k \in 1..Len(index.child_chunks) :
        Qualifies(k) /\ ParentResolves(index.child_chunks[k].parent_id) }

EligibleParents == { index.child_chunks[k].parent_id : k \in EligibleChildren }

ScoreOfChild(k) ==
    cosineSimilarity(response.values, index.child_chunks[k].embedding).value

\* the highest-scoring eligible child of parent pid, the first in index
\* order on ties
BestChild(pid) ==
    CHOOSE k \in EligibleChildren :
        /\ index.child_chunks[k].parent_id = pid
        /\ \A j \in EligibleChildren :
              index.child_chunks[j].parent_id = pid =>
                  \/ ScoreOfChild(j) < ScoreOfChild(k)
                  \/ ScoreOfChild(j) = ScoreOfChild(k) /\ k <= j

\* C20: for topK >= 1 the results of search() are the reference ranking:
\* one result per eligible parent, with the score and child of its best
\* child, in non-increasing score order (index order of the best children
\* on ties), cut to the first topK, so min(topK, eligible parents) results
\* and no left-out parent scoring above a returned one
MatchesReferenceRanking ==
    (SearchReturned /\ rargs.topK >= 1) =>
        LET res == rout.value
            returned == { res[i].parentChunk.id : i \in 1..Len(res) }
        IN /\ Len(res) = Min(rargs.topK, Cardinality(EligibleParents))
           /\ Cardinality(returned) = Len(res)
           /\ returned \subseteq EligibleParents
           /\ \A i \in 1..Len(res) :
                LET k == BestChild(res[i].parentChunk.id)
                IN /\ res[i].matchedChildChunk = index.child_chunks[k]
                   /\ res[i].score = ScoreOfChild(k)
           /\ \A i, j \in 1..Len(res) :
                i < j =>
                    \/ res[i].score > res[j].score
                    \/ /\ res[i].score = res[j].score
                       /\ BestChild(res[i].parentChunk.id)
                              < BestChild(res[j].parentChunk.id)
           /\ \A pid \in EligibleParents \ returned :
                \A i \in 1..Len(res) : ScoreOfChild(BestChild(pid)) <= res[i].score

\* two parents returned in score order against the order of the index
RankedAgainstIndexOrder ==
    /\ SearchReturned
    /\ Len(rout.value) = 2
    /\ rout.value[1].score > rout.value[2].score
    /\ rout.value[1].matchedChildChunk.id > rout.value[2].matchedChildChunk.id

IsBlank(ch) == ch = " " \/ ch = "\n"

\* t is s without its leading and trailing white space
TrimmedFrom(t, s) ==
    \E a, b \in 0..Len(s) :
        /\ a + b <= Len(s)
        /\ t = SubSeq(s, a + 1, Len(s) - b)
        /\ \A i \in 1..a : IsBlank(s[i])
        /\ \A i \in (Len(s) - b + 1)..Len(s) : IsBlank(s[i])
        /\ Len(t) > 0 => (~IsBlank(t[1]) /\ ~IsBlank(t[Len(t)]))

\* the citation of a parent chunk: its source_name, else its source, else
\* "Unknown Source", and its page when it has one
Cites(heading, metadata) ==
    /\ heading.sourceName =
          IF metadata.source_name.present /\ metadata.source_name.value # ""
            THEN metadata.source_name.value
          ELSE IF metadata.source.present /\ metadata.source.value # ""
            THEN metadata.source.value
          ELSE "Unknown Source"
    /\ heading.page =
          IF metadata.page.present /\ metadata.page.value # 0
            THEN metadata.page ELSE Absent

\* C16: formatRagContext returns the empty text exactly when there are no
\* results; for n results it returns the fixed header, then n sections
\* numbered 1..n in input order, each with the citation and the trimmed
\* content of its parent chunk, then the fixed footer, whatever the query
RagContextShape ==
    ragText # Null =>
        LET n == Len(ragResults)
        IN /\ (ragText = <<>>) <=> (n = 0)
           /\ n > 0 =>
                /\ Len(ragText) = 3 * n + 6
                /\ SubSeq(ragText, 1, 3) =
                      << [line |-> "ACTUARIAL REFERENCE CONTEXT"],
                         [line |-> "The following excerpts from actuarial literature"],
                         [line |-> ""] >>
                /\ \A i \in 1..n :
                      /\ ragText[3 * i + 1].reference = i
                      /\ Cites(ragText[3 * i + 1], ragResults[i].parentChunk.metadata)
                      /\ TrimmedFrom(ragText[3 * i + 2].text,
                                     ragResults[i].parentChunk.content)
                      /\ ragText[3 * i + 3] = [line |-> ""]
                /\ SubSeq(ragText, 3 * n + 4, 3 * n + 6) =
                      << [line |-> "--- End of Actuarial Reference Context ---"],
                         [line |-> ""],
                         [line |-> "Use the above context to inform your response"] >>

\* two results were rendered with a query: an unnamed source first, then a
\* named one whose content carried white space around it
TwoReferencesRendered ==
    /\ ragText # Null
    /\ ragQuery.present
    /\ Len(ragResults) = 2
    /\ ~ragResults[1].parentChunk.metadata.source_name.present
    /\ ragResults[2].parentChunk.metadata.page = Present(12)
    /\ ragResults[2].parentChunk.content # ragText[8].text
    /\ ragText[4].sourceName = "Unknown Source"
    /\ ragText[7].reference = 2

\* the embedding call of the request failed, or the search threw on a
\* child embedding of another length than the query embedding
RetrievalFailed ==
    /\ response # Null
    /\ \/ response.kind # "ok"
       \/ \E k \in 1..Len(index.child_chunks) :
             Len(index.child_chunks[k].embedding) # Len(response.values)

\* the search of the request succeeded and no child chunk qualified
NoQualifyingMatch ==
    /\ response # Null
    /\ ~RetrievalFailed
    /\ EligibleParents = {}

\* what the caller of an entry point gets when nothing matched
NoContext(entry) == IF entry = "section" THEN Undefined ELSE [kind |-> "nomatch"]

\* C15 as stated: from getActuarialRagSection and executeRagSearchTool, a
\* retrieval that failed gives the caller what a retrieval without a
\* qualifying match gives
FailureLooksLikeNoMatch ==
    (rentry \in {"section", "tool"} /\ rpc = "done"
        /\ (RetrievalFailed \/ NoQualifyingMatch)) =>
        (rout.ok /\ rout.value = NoContext(rentry))

\* C15 as amended: from getActuarialRagSection, a retrieval that failed and
\* a retrieval without a qualifying match both resolve to undefined
SectionFailureLooksLikeNoMatch ==
    (rentry = "section" /\ rpc = "done"
        /\ (RetrievalFailed \/ NoQualifyingMatch)) =>
        (rout.ok /\ rout.value = Undefined)

\* the section resolved to undefined after the provider answered with a
\* malformed response
SectionFailedQuietly ==
    /\ rentry = "section"
    /\ rpc = "done"
    /\ response # Null
    /\ response.kind = "malformed"
    /\ rout = Value(Undefined)

\* C19: when the RAG search behind SearchActuarialDocsToolHandler.execute
\* fails (service not ready, no API key, or the search throwing), the
\* handler returns a tool error and records the tool use as unsuccessful
HandlerReportsFailure ==
    (rentry = "handler" /\ rpc = "done" /\ rout.ok /\ rout.value.said.present
        /\ rout.value.said.value.kind \in {"error", "failure"}) =>
        /\ DOMAIN rout.value.response = {"toolError"}
        /\ ~rout.value.telemetry.value.success

\* the last three turns of a list, or all of them when it has fewer
LastThree(turns) ==
    IF Len(turns) <= 3 THEN turns
    ELSE <<turns[Len(turns) - 2], turns[Len(turns) - 1], turns[Len(turns)]>>

\* C17: the result of detectCards, under either scoring, is the result on
\* the last three turns alone and, for a list of three turns or more, on
\* those three behind any older turn, so two turn lists with the same last
\* three turns give the same detections, signals, scores and order
DependsOnlyOnLastThree ==
    /\ detected # Null =>
          /\ detected = detectCards(LastThree(userTurns), registry)
          /\ Len(userTurns) >= 3 =>
                \A older \in TurnTexts :
                    detected = detectCards(<<older>> \o LastThree(userTurns), registry)
    /\ recent # Null =>
          /\ recent = detectCardsByRecency(LastThree(userTurns), registry)
          /\ Len(userTurns) >= 3 =>
                \A older \in TurnTexts :
                    recent = detectCardsByRecency(<<older>> \o LastThree(userTurns),
                                                  registry)

\* a keyword that occurs only in a turn older than the last three went
\* undetected under both scorings
OlderTurnIgnored ==
    /\ detected = Value(<<>>)
    /\ recent = Value(<<>>)
    /\ Len(userTurns) > 3
    /\ userTurns[1] = <<"x">>
    /\ \A i \in 2..Len(userTurns) : userTurns[i] = <<"A", "b">>
    /\ registry = <<RuleCard(1, Absent, <<Keyword(<<<<"x">>>>, Absent, Absent)>>)>>

Returned(api) ==
    relevant # Null /\ relevant.stage = "returned" /\ relevant.api = api

\* every regex trigger of the registry compiles
AllCompile(reg) ==
    \A r \in 1..Len(reg) : \A i \in 1..Len(reg[r].triggers) :
        reg[r].triggers[i].kind = "regex" => Compiles(reg[r].triggers[i])

\* some trigger clause of the card matches the window w: a keyword clause,
\* or a case-insensitive literal pattern
RuleShouldMatch(card, w) ==
    \E i \in 1..Len(card.triggers) :
        LET trig == card.triggers[i]
        IN IF trig.kind = "keyword" THEN ClauseShouldMatch(trig, w)
           ELSE trig.flags = "i" /\ OccursIgnoringCase(trig.pattern, w)

\* C12: every rule with a trigger clause matching the window of the last
\* three turns is reported by getRelevantCapabilityCards: cardsFound is
\* true and the rule's id is among cardIds (stated here for registries
\* whose patterns all compile)
MatchingRulesReported ==
    (relevant # Null /\ relevant.api = "budget" /\ relevant.stage # "formatting"
        /\ AllCompile(registry)) =>
        \A r \in 1..Len(registry) :
            RuleShouldMatch(registry[r], RawWindow) =>
                /\ relevant.stage = "returned"
                /\ relevant.result.cardsFound
                /\ \E k \in 1..Len(relevant.result.cardIds) :
                      relevant.result.cardIds[k] = registry[r].id

\* C18: a non-empty guidance block lists the id of every card it includes
\* and every signal that triggered those cards
GuidanceListsIdsAndSignals ==
    (Returned("signals") /\ relevant.result.cardsBlock # <<>>) =>
        LET head == relevant.result.cardsBlock[2]
        IN /\ \A k \in 1..Len(relevant.result.cardIds) :
                \E j \in 1..Len(head.cardList) :
                    head.cardList[j] = relevant.result.cardIds[k]
           /\ \A k \in 1..Len(relevant.result.signals) :
                /\ head.signalInfo.present
                /\ \E j \in 1..Len(head.signalInfo.value) :
                      head.signalInfo.value[j] = relevant.result.signals[k]

\* child chunk k of the loaded index references no parent chunk of the index
IsOrphan(k) == ~ParentResolves(index.child_chunks[k].parent_id)

Orphans == { k \in 1..Len(index.child_chunks) : IsOrphan(k) }

\* the child chunks of the index without its orphans, in index order
RECURSIVE WithoutOrphans(_)
WithoutOrphans(k) ==
    IF k > Len(index.child_chunks) THEN <<>>
    ELSE (IF IsOrphan(k) THEN <<>> ELSE <<index.child_chunks[k]>>)
            \o WithoutOrphans(k + 1)

\* C21: orphaned child chunks are never fatal: a valid index file loads
\* with them (the load fails only on a failed read); a search whose query
\* embedding has the length of every child embedding does not throw; no
\* result is an orphan; and the results are those of the same search on the
\* index without its orphans, so an orphan neither takes a place among the
\* topK nor keeps a later resolvable child out
OrphansNeverFatal ==
    /\ (~FileInvalid /\ pc[1] = "threw") => thrown[1] = "read failed"
    /\ (~FileInvalid /\ pc[1] = "returned") =>
          (index # Null /\ index.child_chunks = file.child_chunks)
    /\ (SearchDone /\ response # Null /\ response.kind = "ok") =>
          /\ ~rout.ok =>
                \E k \in 1..Len(index.child_chunks) :
                    Len(index.child_chunks[k].embedding) # Len(response.values)
          /\ rout.ok =>
                /\ \A i \in 1..Len(rout.value) :
                      ParentResolves(rout.value[i].matchedChildChunk.parent_id)
                /\ LET kept == ChildMatches(response.values, WithoutOrphans(1),
                                            rargs.minScore, 1, <<>>)
                   IN /\ kept.ok
                      /\ rout.value =
                            Dedup(SortByScore(kept.value), 1, {}, <<>>, rargs.topK)

\* a search with topK 1 returned a resolvable child although an orphan
\* scored above it
OrphanOutrankedReturned ==
    /\ SearchReturned
    /\ rargs.topK = 1
    /\ Len(rout.value) = 1
    /\ OrphanCount(index) > 0
    /\ \E k \in Orphans :
         /\ Qualifies(k)
         /\ ScoreOfChild(k) > rout.value[1].score

\* the estimated costs of the renderings in bs, summed
RECURSIVE CostOfBlocks(_, _)
CostOfBlocks(bs, i) ==
    IF i > Len(bs) THEN 0
    ELSE (bs[i].length + 3) \div 4 + CostOfBlocks(bs, i + 1)

\* C22: at every step of formatCardsForPrompt with a budget >= 0, the
\* running cost is the sum of the estimated costs of the renderings
\* included so far and is at most the budget
RunningCostWithinBudget ==
    budget >= 0 =>
        /\ used = CostOfBlocks(blocks, 1)
        /\ used <= budget

\* the loop ended with a full rendering and a condensed one whose costs
\* add up to the budget exactly
RunningCostReachesBudget ==
    /\ fpos > Len(cards)
    /\ Len(blocks) = 2
    /\ blocks[1].kind = "full"
    /\ blocks[2].kind = "short"
    /\ used = budget

\* the cost of the full-detail rendering of card c: its long text, or its
\* short text when it has no long text
FullCost(c) ==
    (BlockLen(c, IF c.long = 0 THEN c.short ELSE c.long) + 3) \div 4

\* the cost of its condensed rendering
CondensedCost(c) == (BlockLen(c, c.short) + 3) \div 4

\* what the loop should add for card c with the budget that remains
GreedyChoice(c, remaining) ==
    IF FullCost(c) <= remaining
      THEN <<[id |-> c.id, kind |-> "full",
              length |-> BlockLen(c, IF c.long = 0 THEN c.short ELSE c.long)]>>
    ELSE IF CondensedCost(c) <= remaining
      THEN <<[id |-> c.id, kind |-> "short", length |-> BlockLen(c, c.short)]>>
    ELSE <<>>

\* C23: formatCardsForPrompt takes its candidates greedily in input order:
\* each step handles the next candidate and includes it in full exactly
\* when its full cost fits in what remains of the budget, else condensed
\* exactly when that fits, else skips it and goes on; the included items
\* are distinct candidates in input order; and two candidates costing 600
\* under a budget of 800 give one full item and at most a condensed second
GreedyInInputOrder ==
    /\ [](/\ \A i, j \in 1..Len(blocks) : i < j => blocks[i].id < blocks[j].id
          /\ \A i \in 1..Len(blocks) : blocks[i].id < fpos
          /\ fout # Null => (fpos = Len(cards) + 1 /\ fout.items = blocks)
          /\ (fout # Null /\ budget = CARD_BUDGET_TOKENS /\ Len(cards) = 2
                /\ FullCost(cards[1]) = 600 /\ FullCost(cards[2]) = 600) =>
                /\ Len(blocks) <= 2
                /\ Cardinality({i \in 1..Len(blocks) : blocks[i].kind = "full"}) <= 1
                /\ used <= CARD_BUDGET_TOKENS)
    /\ [][fpos' # fpos =>
            /\ fpos' = fpos + 1
            /\ fpos <= Len(cards)
            /\ blocks' = blocks \o GreedyChoice(cards[fpos], budget - used)]_vars

\* two candidates costing 600 each under the budget of 800: the first in
\* full, the second condensed
SecondCandidateCondensed ==
    /\ fout # Null
    /\ budget = CARD_BUDGET_TOKENS
    /\ Len(cards) = 2
    /\ FullCost(cards[1]) = 600
    /\ FullCost(cards[2]) = 600
    /\ Len(fout.items) = 2
    /\ fout.items[1].kind = "full"
    /\ fout.items[2].kind = "short"

\* the place of a detection's rule in the registry
RegistryPlace(d) == CHOOSE r \in 1..Len(registry) : registry[r] = d.card

\* ds is in non-increasing score order, registry order within a score
ScoreThenRegistryOrder(ds) ==
    \A i, j \in 1..Len(ds) :
        i < j =>
            \/ ds[i].score > ds[j].score
            \/ ds[i].score = ds[j].score /\ RegistryPlace(ds[i]) < RegistryPlace(ds[j])

\* C24: detectCards, under either scoring, returns its detections in
\* non-increasing score order, and detections of equal score in the order
\* of their rules in the registry
DetectionsSortedStably ==
    /\ (detected # Null /\ detected.ok) => ScoreThenRegistryOrder(detected.value)
    /\ (recent # Null /\ recent.ok) => ScoreThenRegistryOrder(recent.value)

\* both scorings ran on the large registry: by importance every rule tied
\* and stayed in registry order; by recency the rules on the last turn came
\* first, in registry order, then the others, in registry order
TiesKeptInRegistryOrder ==
    /\ registry = LargeRegistry
    /\ detected # Null
    /\ detected.ok
    /\ Len(detected.value) = Len(registry)
    /\ \A i \in 1..Len(registry) : detected.value[i].card.id = i
    /\ recent # Null
    /\ recent.ok
    /\ recent.value[1].card.id = 2
    /\ recent.value[2].card.id = 4
    /\ recent.value[1].score = 1
    /\ recent.value[6].card.id = 1
    /\ recent.value[7].card.id = 3
    /\ recent.value[7].score = 0

\* the last turn as the user wrote it
RawLastTurn == IF Len(userTurns) = 0 THEN <<>> ELSE userTurns[Len(userTurns)]

\* a signal that fired for the card occurs in the last turn: a term of a
\* matched keyword clause that is in the window and in the last turn, or a
\* pattern that matched the window and matches the last turn
SignalInLastTurn(card) ==
    \E i \in 1..Len(card.triggers) :
        LET trig == card.triggers[i]
        IN IF trig.kind = "keyword"
             THEN /\ ClauseShouldMatch(trig, RawWindow)
                  /\ \E t \in 1..Len(trig.any) :
                        /\ OccursIgnoringCase(trig.any[t], RawWindow)
                        /\ OccursIgnoringCase(trig.any[t], RawLastTurn)
           ELSE /\ RegexMatches(trig, toLowerCase(RawWindow))
                /\ RegexMatches(trig, toLowerCase(RawLastTurn))

\* C25: under the recency scoring a detection scores 1 exactly when a
\* signal that fired for its rule occurs in the last turn, and 0 otherwise;
\* under the importance scoring it scores its importance (3 when it has
\* none) plus the number of its signals, at most 2
ScoresFollowPolicy ==
    /\ (recent # Null /\ recent.ok) =>
          \A h \in 1..Len(recent.value) :
              recent.value[h].score =
                  IF SignalInLastTurn(recent.value[h].card) THEN 1 ELSE 0
    /\ (detected # Null /\ detected.ok) =>
          \A h \in 1..Len(detected.value) :
              LET d == detected.value[h]
              IN d.score =
                    (IF d.card.importance.present THEN d.card.importance.value ELSE 3)
                        + (IF Len(d.signals) < 2 THEN Len(d.signals) ELSE 2)

\* C26: every initialize() call that returns without throwing leaves the
\* service ready, an index loaded and isReady() true, for the caller that
\* performed the load and for every caller that waited on the load of another
InitializeReturnLeavesReady ==
    [][\A c \in Callers :
         (pc'[c] = "returned" /\ pc[c] # "returned") => (index' # Null /\ isReady')]_vars

ResultConsistentWithBlock ==
    Returned("budget") =>
        LET result == relevant.result
            rendered == result.cardsBlock.items
        IN /\ result.cardsFound <=> (result.cardsBlock.length > 0)
           /\ result.cardIds = [k \in 1..Len(rendered) |-> rendered[k].id]

\* every rule that matched, with its recency score, before the cut
AllRecencyHits ==
    CollectHitsByRecency(registry, WindowText(userTurns), LastTurn(userTurns),
                         1, <<>>).value

\* the matching rules that the recency-scored detectCards did not return
DroppedHits ==
    { h \in 1..Len(AllRecencyHits) :
        \A k \in 1..Len(recent.value) :
            recent.value[k].card.id # AllRecencyHits[h].card.id }

\* C29: the recency-scored detectCards returns at most MAX_CARDS
\* detections, as many as matched when those are fewer, and no matching
\* rule it drops scores above a detection it returns
AtMostMaxCardsBestKept ==
    (recent # Null /\ recent.ok) =>
        /\ Len(recent.value) <= 10
        /\ Len(recent.value) + Cardinality(DroppedHits) = Len(AllRecencyHits)
        /\ DroppedHits # {} => Len(recent.value) = 10
        /\ \A h \in DroppedHits : \A k \in 1..Len(recent.value) :
              AllRecencyHits[h].score <= recent.value[k].score

\* eleven rules matched, some on the last turn and some before it: ten
\* were returned, and the one dropped scored 0
EleventhRuleDropped ==
    /\ recent # Null
    /\ recent.ok
    /\ Len(AllRecencyHits) = MAX_CARDS + 1
    /\ Cardinality(DroppedHits) = 1
    /\ recent.value[1].score = 1
    /\ recent.value[MAX_CARDS].score = 0
    /\ \A h \in DroppedHits : AllRecencyHits[h].score = 0

\* C30: an index that initialize() accepted can always be searched: when
\* the embedding call answers with a vector of the length of the first
\* child chunk's embedding, search() returns a result list and does not
\* throw, also when initialize() counted embeddings of another length
AcceptedIndexSearchable ==
    (SearchDone /\ index # Null /\ response # Null /\ response.kind = "ok"
        /\ Len(response.values) = Len(index.child_chunks[1].embedding)) =>
        rout.ok

====
